---- MODULE Spec2Model ----
(***************************************************************************)
(* Model of the onefuzz node agent scheduler                               *)
(* (src/agent/onefuzz-agent/src/scheduler.rs): the lifecycle typestate     *)
(* machine Scheduler / State<C>, its transitions and execute_command.      *)
(***************************************************************************)
EXTENDS Integers, Sequences, FiniteSets, TLC

\* ------------------------------------------------------------------ bounds
MaxUnits == 2      \* longest work set (number of work units)
MaxTask  == 2      \* task ids are 1..MaxTask
MaxPolls == 2      \* a running worker reports done after at most MaxPolls updates

TaskIds == 1..MaxTask

\* ------------------------------------------------------------- work model
WorkUnit(t) == [task_id |-> t]
NoWork == [task_id |-> 0]

RECURSIVE SeqsUpTo(_, _)
SeqsUpTo(S, n) ==
    IF n = 0 THEN {<< >>}
    ELSE LET shorter == SeqsUpTo(S, n - 1)
         IN shorter \cup {Append(s, x) : s \in {q \in shorter : Len(q) = n - 1}, x \in S}

WorkUnits == {WorkUnit(t) : t \in TaskIds}
WorkSets == [work_units : SeqsUpTo(WorkUnits, MaxUnits), reboot : BOOLEAN]
NoWorkSet == [work_units |-> << >>, reboot |-> FALSE]

\* ---------------------------------------------------------------- workers
\* Option<Worker>: None is the record NoWorker, Some(w) is the worker w.
NoWorker == [kind |-> "None", work |-> NoWork, polls |-> 0]

Worker_new(work) == [kind |-> "Running", work |-> work, polls |-> 0]

is_done(worker) == worker.kind = "Done"

\* Worker::update: a Done worker is returned as it is; a Running worker is
\* polled once and either keeps running or becomes Done.
Worker_update(worker, done_now) ==
    IF worker.kind = "Done" THEN worker
    ELSE [worker EXCEPT !.polls = @ + 1,
                        !.kind = IF done_now \/ worker.polls + 1 >= MaxPolls
                                 THEN "Done" ELSE "Running"]

\* state.stop().kill(): the Done worker for the same work unit.
kill(worker) == [worker EXCEPT !.kind = "Done"]

\* ------------------------------------------------------------- done cause
\* Option<Output>: the exit status and the captured text of the script.
NoOutput == [some |-> FALSE, success |-> FALSE, text |-> ""]
Output(success, text) == [some |-> TRUE, success |-> success, text |-> text]

\* An error string is the sequence of its lines.
NoCause == [kind |-> "NoCause", error |-> << >>, script_output |-> NoOutput]
Stopped == [kind |-> "Stopped", error |-> << >>, script_output |-> NoOutput]
WorkersDone == [kind |-> "WorkersDone", error |-> << >>, script_output |-> NoOutput]
SetupError(error, script_output) ==
    [kind |-> "SetupError", error |-> error, script_output |-> script_output]

\* -------------------------------------------------------------- scheduler
\* A Scheduler value: the variant and the context data the variant wraps.
Scheduler(variant, work_set, workers, cause) ==
    [variant |-> variant, work_set |-> work_set, workers |-> workers, cause |-> cause]

Free == Scheduler("Free", NoWorkSet, << >>, NoCause)
SettingUp(work_set) == Scheduler("SettingUp", work_set, << >>, NoCause)
PendingReboot(work_set) == Scheduler("PendingReboot", work_set, << >>, NoCause)
Ready(work_set) == Scheduler("Ready", work_set, << >>, NoCause)
Busy(workers) == Scheduler("Busy", NoWorkSet, workers, NoCause)
Done(cause) == Scheduler("Done", NoWorkSet, << >>, cause)

\* The driver holds no scheduler value (not constructed yet, or moved away).
NoSched == Scheduler("None", NoWorkSet, << >>, NoCause)

NodeState(value) ==
    CASE value.variant = "Free" -> "Free"
      [] value.variant = "SettingUp" -> "SettingUp"
      [] value.variant = "PendingReboot" -> "Rebooting"
      [] value.variant = "Ready" -> "Ready"
      [] value.variant = "Busy" -> "Busy"
      [] value.variant = "Done" -> "Done"
      [] OTHER -> "None"

\* Result<T>: Ok carries the value, Err and a panic carry none. With the
\* result go the effects of the call on the collaborators: installed
\* (add_ssh_key was invoked), killed (the slots whose worker was stopped and
\* killed), failed (the slots whose kill returned an error), polled (the
\* number of workers that were advanced), setup (what the setup runner
\* reported) and fault (the directory computation that failed: 0 none, -1
\* a setup directory, i the working directory of unit i).
NoSetup == [kind |-> "None", success |-> FALSE, text |-> "", msg |-> "", cause |-> ""]

Ok(value) == [res |-> "ok", sched |-> value, installed |-> FALSE, killed |-> {},
              failed |-> {}, polled |-> 0, setup |-> NoSetup, fault |-> 0]
Err == [res |-> "err", sched |-> NoSched, installed |-> FALSE, killed |-> {},
        failed |-> {}, polled |-> 0, setup |-> NoSetup, fault |-> 0]
Panic == [res |-> "panic", sched |-> NoSched, installed |-> FALSE, killed |-> {},
          failed |-> {}, polled |-> 0, setup |-> NoSetup, fault |-> 0]

\* Option<RebootContext>
NoCtx == [some |-> FALSE, work_set |-> NoWorkSet]
RebootContext(work_set) == [some |-> TRUE, work_set |-> work_set]

\* Variant: the reboot context is ignored.
new_always_free(ctx) == Free

\* Variant: the work set of the reboot context is set up again.
new_resetup(ctx) == IF ctx.some THEN SettingUp(ctx.work_set) ELSE Free

new(ctx) == IF ctx.some THEN Ready(ctx.work_set) ELSE Free

schedule(self, work_set) == SettingUp(work_set)

\* Setup runner outcomes: Ok(None), Ok(Some(output)) with the exit status
\* and the captured text, and Err(err) with the error's message and its
\* cause, if it has one.
SetupOutcomes ==
    {[kind |-> "NoScript", success |-> TRUE, text |-> "", msg |-> "", cause |-> ""]}
    \cup {[kind |-> "Script", success |-> ok, text |-> text, msg |-> "", cause |-> ""] :
             ok \in BOOLEAN, text \in {"", "log"}}
    \cup {[kind |-> "Err", success |-> FALSE, text |-> "", msg |-> "setup failed",
           cause |-> cause] : cause \in {"", "io error"}}

\* format!("{err:?}"): the message, then the chain of causes.
debug_fmt(err) ==
    IF err.cause = "" THEN <<err.msg>>
    ELSE <<err.msg, "Caused by:", err.cause>>

\* Variant: the output of the failed script is not attached.
finish_drop_output(self, output) ==
    LET work_set == self.work_set
        done == IF output.kind = "Script" /\ ~output.success
                THEN Ok(Done(SetupError(<<"error running target setup script">>,
                                        NoOutput)))
                ELSE IF output.kind = "Err"
                THEN Ok(Done(SetupError(debug_fmt(output), NoOutput)))
                ELSE IF work_set.reboot
                THEN Ok(PendingReboot(work_set))
                ELSE Ok(Ready(work_set))
    IN [done EXCEPT !.setup = output]

\* Variant: the reboot flag is not looked at.
finish_ignore_reboot(self, output) ==
    LET work_set == self.work_set
        done == IF output.kind = "Script" /\ ~output.success
                THEN Ok(Done(SetupError(<<"error running target setup script">>,
                                        Output(output.success, output.text))))
                ELSE IF output.kind = "Err"
                THEN Ok(Done(SetupError(debug_fmt(output), NoOutput)))
                ELSE Ok(Ready(work_set))
    IN [done EXCEPT !.setup = output]

finish(self, output) ==
    LET work_set == self.work_set
        done == IF output.kind = "Script" /\ ~output.success
                THEN Ok(Done(SetupError(<<"error running target setup script">>,
                                        Output(output.success, output.text))))
                ELSE IF output.kind = "Err"
                THEN Ok(Done(SetupError(debug_fmt(output), NoOutput)))
                ELSE IF work_set.reboot
                THEN Ok(PendingReboot(work_set))
                ELSE Ok(Ready(work_set))
    IN [done EXCEPT !.setup = output]

reboot_context(self) == RebootContext(self.work_set)

\* The loop of run over the work units from unit i on: work_dir_fail is the
\* unit whose working_dir returns an error (0: none).
RECURSIVE run_units(_, _, _, _)
run_units(work_units, i, workers, work_dir_fail) ==
    IF i > Len(work_units) THEN [res |-> "ok", workers |-> workers]
    ELSE IF i = work_dir_fail THEN [res |-> "err", workers |-> workers]
    ELSE run_units(work_units, i + 1, Append(workers, Worker_new(work_units[i])),
                   work_dir_fail)

\* Variant: the workers built before the failing unit are returned as Busy.
run_partial(self, setup_dir_fail, work_dir_fail) ==
    LET looped == run_units(self.work_set.work_units, 1, << >>, work_dir_fail)
    IN IF setup_dir_fail THEN [Err EXCEPT !.fault = -1]
       ELSE [Ok(Busy(looped.workers)) EXCEPT
                !.fault = IF looped.res = "err" THEN work_dir_fail ELSE 0]

\* run: setup_dir_fail is TRUE when setup_dir or extra_setup_dir returns an
\* error.
run(self, setup_dir_fail, work_dir_fail) ==
    LET looped == run_units(self.work_set.work_units, 1, << >>, work_dir_fail)
    IN IF setup_dir_fail THEN [Err EXCEPT !.fault = -1]
       ELSE IF looped.res = "err" THEN [Err EXCEPT !.fault = work_dir_fail]
       ELSE Ok(Busy(looped.workers))

\* Variant: an empty collection does not count as done.
all_workers_done_nonempty(workers) ==
    /\ workers # << >>
    /\ \A i \in DOMAIN workers : is_done(workers[i])

all_workers_done(workers) == \A i \in DOMAIN workers : is_done(workers[i])

\* The loop of update over the slots from slot i on: done_now is the set of
\* slots whose worker finishes in this tick, fail_at the slot whose
\* Worker::update returns an error (0: none).
RECURSIVE update_slots(_, _, _, _)
update_slots(workers, i, done_now, fail_at) ==
    IF i > Len(workers) THEN [res |-> "ok", workers |-> workers, polled |-> i - 1]
    ELSE IF workers[i].kind = "None"
    THEN [res |-> "panic", workers |-> workers, polled |-> i - 1]
    ELSE IF i = fail_at THEN [res |-> "err", workers |-> workers, polled |-> i - 1]
    ELSE update_slots([workers EXCEPT ![i] = Worker_update(workers[i], i \in done_now)],
                      i + 1, done_now, fail_at)

update(self, done_now, fail_at) ==
    LET looped == update_slots(self.workers, 1, done_now, fail_at)
        updated == IF looped.res = "panic" THEN Panic
                   ELSE IF looped.res = "err" THEN Err
                   ELSE IF all_workers_done(looped.workers) THEN Ok(Done(WorkersDone))
                   ELSE Ok(Busy(looped.workers))
    IN [updated EXCEPT !.polled = looped.polled]

\* Variant: a failed kill leaves its worker running and the slots that were
\* cancelled are committed.
stop_commit_partial(self, task_id, kill_fail, kill_done) ==
    LET workers == self.workers
        matches(i) == workers[i].kind = "Running" /\ workers[i].work.task_id = task_id
        matching == {i \in DOMAIN workers : matches(i)}
    IN [Ok(Busy([i \in DOMAIN workers |->
                   IF matches(i) /\ i \notin kill_fail THEN kill(workers[i])
                   ELSE IF matches(i) THEN workers[i] ELSE NoWorker]))
        EXCEPT !.killed = matching \ kill_fail, !.failed = matching \cap kill_fail]

\* stop: kill_fail is the set of slots whose kill returns an error, kill_done
\* the set of slots whose cancellation has completed by the time the first
\* error ends the join. Every slot is taken; only a Running worker of the
\* task is put back, as Done.
stop(self, task_id, kill_fail, kill_done) ==
    LET workers == self.workers
        matches(i) == workers[i].kind = "Running" /\ workers[i].work.task_id = task_id
        matching == {i \in DOMAIN workers : matches(i)}
    IN IF matching \cap kill_fail # {}
       THEN [Err EXCEPT !.killed = (matching \ kill_fail) \cap kill_done,
                        !.failed = matching \cap kill_fail]
       ELSE [Ok(Busy([i \in DOMAIN workers |->
                        IF matches(i) THEN kill(workers[i]) ELSE NoWorker]))
             EXCEPT !.killed = matching]

\* ------------------------------------------------------------- commands
\* Variant: the key is installed whether or not the node is managed.
add_ssh_key_cmd_always(self, managed, key_ok) ==
    IF key_ok THEN [Ok(self) EXCEPT !.installed = TRUE]
    ELSE [Err EXCEPT !.installed = TRUE]

\* Variant: the managed test is inverted.
add_ssh_key_cmd_inverted(self, managed, key_ok) ==
    IF ~managed
    THEN IF key_ok THEN [Ok(self) EXCEPT !.installed = TRUE]
         ELSE [Err EXCEPT !.installed = TRUE]
    ELSE Ok(self)

\* key_ok: the outcome of add_ssh_key, when it is called.
add_ssh_key_cmd(self, managed, key_ok) ==
    IF managed
    THEN IF key_ok THEN [Ok(self) EXCEPT !.installed = TRUE]
         ELSE [Err EXCEPT !.installed = TRUE]
    ELSE Ok(self)

stop_task_cmd(self, task_id, kill_fail, kill_done) ==
    IF self.variant = "Busy" THEN stop(self, task_id, kill_fail, kill_done)
    ELSE Ok(self)

\* Variant: a scheduler that is already Done is returned as it is.
stop_cmd_keep_done(self) ==
    IF self.variant = "Done" THEN Ok(self) ELSE Ok(Done(Stopped))

\* Variant: Stop hands back a freshly constructed scheduler.
stop_cmd_reset(self) == Ok(new(NoCtx))

stop_cmd(self) == Ok(Done(Stopped))

\* Variant: the test for Free is missing.
stop_if_free_cmd_any(self) == Ok(Done(Stopped))

\* Variant: stops whenever no worker is running yet.
stop_if_free_cmd_idle(self) ==
    IF self.variant \in {"Free", "SettingUp", "Ready"} THEN Ok(Done(Stopped))
    ELSE Ok(self)

stop_if_free_cmd(self) ==
    IF self.variant = "Free" THEN Ok(Done(Stopped)) ELSE Ok(self)

execute_command(self, cmd, managed, key_ok, kill_fail, kill_done) ==
    CASE cmd.kind = "AddSshKey" -> add_ssh_key_cmd(self, managed, key_ok)
      [] cmd.kind = "StopTask" -> stop_task_cmd(self, cmd.task_id, kill_fail, kill_done)
      [] cmd.kind = "Stop" -> stop_cmd(self)
      [] cmd.kind = "StopIfFree" -> stop_if_free_cmd(self)

NodeCommand(kind, task_id) == [kind |-> kind, task_id |-> task_id]

\* ------------------------------------------------------------------ state
VARIABLES
    sched,       \* the Scheduler value the driver loop owns
    pc,          \* "boot": process start; "run": driving; "failed": value lost
    reboot_ctx,  \* the persisted Option<RebootContext>
    origin,      \* work units of the work set the Busy stage was run from
    setup_runs,  \* number of setup runner invocations
    last         \* the last operation: its input, arguments and outcome

vars == <<sched, pc, reboot_ctx, origin, setup_runs, last>>

\* Record of one operation: the scheduler it was applied to, its arguments,
\* its outcome and its effects on the collaborators.
Call(op, pre, cmd, managed, result) ==
    [op |-> op, pre |-> pre, task_id |-> cmd.task_id, managed |-> managed,
     res |-> result.res, installed |-> result.installed, killed |-> result.killed,
     failed |-> result.failed, polled |-> result.polled, setup |-> result.setup,
     fault |-> result.fault]

NoCmd == NodeCommand("None", 0)

Init ==
    /\ sched = NoSched
    /\ pc = "boot"
    /\ reboot_ctx = NoCtx
    /\ origin = << >>
    /\ setup_runs = 0
    /\ last = Call("Init", NoSched, NoCmd, FALSE, Ok(NoSched))

\* The driver takes the result of an operation on its scheduler value.
Take(result) ==
    /\ sched' = result.sched
    /\ pc' = IF result.res = "ok" THEN "run" ELSE "failed"

New ==
    /\ pc = "boot"
    /\ Take(Ok(new(reboot_ctx)))
    /\ last' = Call("new", sched, NoCmd, FALSE, Ok(new(reboot_ctx)))
    /\ UNCHANGED <<reboot_ctx, origin, setup_runs>>

Schedule ==
    /\ pc = "run" /\ sched.variant = "Free"
    /\ \E work_set \in WorkSets :
          /\ Take(Ok(schedule(sched, work_set)))
          /\ last' = Call("schedule", sched, NoCmd, FALSE,
                          Ok(schedule(sched, work_set)))
    /\ UNCHANGED <<reboot_ctx, origin, setup_runs>>

Finish ==
    /\ pc = "run" /\ sched.variant = "SettingUp"
    /\ \E output \in SetupOutcomes :
          /\ Take(finish(sched, output))
          /\ last' = Call("finish", sched, NoCmd, FALSE, finish(sched, output))
    /\ setup_runs' = setup_runs + 1
    /\ UNCHANGED <<reboot_ctx, origin>>

Reboot ==
    /\ pc = "run" /\ sched.variant = "PendingReboot"
    /\ reboot_ctx' = reboot_context(sched)
    /\ sched' = NoSched
    /\ pc' = "boot"
    /\ last' = Call("reboot_context", sched, NoCmd, FALSE, Ok(NoSched))
    /\ UNCHANGED <<origin, setup_runs>>

Run ==
    /\ pc = "run" /\ sched.variant = "Ready"
    /\ \E setup_dir_fail \in BOOLEAN,
          work_dir_fail \in 0..Len(sched.work_set.work_units) :
          LET result == run(sched, setup_dir_fail, work_dir_fail)
          IN /\ Take(result)
             /\ last' = Call("run", sched, NoCmd, FALSE, result)
             /\ origin' = IF result.res = "ok" THEN sched.work_set.work_units
                          ELSE origin
    /\ UNCHANGED <<reboot_ctx, setup_runs>>

\* The slots whose worker is Running: the workers that are polled or killed.
RunningSlots(value) ==
    {i \in DOMAIN value.workers : value.workers[i].kind = "Running"}

Update ==
    /\ pc = "run" /\ sched.variant = "Busy"
    /\ \E done_now \in SUBSET RunningSlots(sched),
          fail_at \in {0} \cup RunningSlots(sched) :
          /\ Take(update(sched, done_now, fail_at))
          /\ last' = Call("update", sched, NoCmd, FALSE,
                          update(sched, done_now, fail_at))
    /\ UNCHANGED <<reboot_ctx, origin, setup_runs>>

ExecAddSshKey ==
    /\ pc = "run"
    /\ \E managed \in BOOLEAN, key_ok \in BOOLEAN :
          LET cmd == NodeCommand("AddSshKey", 0)
              result == execute_command(sched, cmd, managed, key_ok, {}, {})
          IN /\ Take(result)
             /\ last' = Call(cmd.kind, sched, cmd, managed, result)
    /\ UNCHANGED <<reboot_ctx, origin, setup_runs>>

ExecStopTask ==
    /\ pc = "run"
    /\ \E managed \in BOOLEAN, task_id \in TaskIds,
          kill_fail \in SUBSET RunningSlots(sched) :
       \E kill_done \in SUBSET (RunningSlots(sched) \ kill_fail) :
          LET cmd == NodeCommand("StopTask", task_id)
              result == execute_command(sched, cmd, managed, TRUE, kill_fail,
                                        kill_done)
          IN /\ Take(result)
             /\ last' = Call(cmd.kind, sched, cmd, managed, result)
    /\ UNCHANGED <<reboot_ctx, origin, setup_runs>>

ExecStop ==
    /\ pc = "run"
    /\ \E managed \in BOOLEAN :
          LET cmd == NodeCommand("Stop", 0)
              result == execute_command(sched, cmd, managed, TRUE, {}, {})
          IN /\ Take(result)
             /\ last' = Call(cmd.kind, sched, cmd, managed, result)
    /\ UNCHANGED <<reboot_ctx, origin, setup_runs>>

ExecStopIfFree ==
    /\ pc = "run"
    /\ \E managed \in BOOLEAN :
          LET cmd == NodeCommand("StopIfFree", 0)
              result == execute_command(sched, cmd, managed, TRUE, {}, {})
          IN /\ Take(result)
             /\ last' = Call(cmd.kind, sched, cmd, managed, result)
    /\ UNCHANGED <<reboot_ctx, origin, setup_runs>>

Next ==
    \/ New
    \/ Schedule
    \/ Finish
    \/ Reboot
    \/ Run
    \/ Update
    \/ ExecAddSshKey
    \/ ExecStopTask
    \/ ExecStop
    \/ ExecStopIfFree

Spec == Init /\ [][Next]_vars

\* The driver loop keeps calling the transition of the current variant.
Tick == New \/ Schedule \/ Finish \/ Reboot \/ Run \/ Update

LiveSpec == Init /\ [][Next]_vars /\ WF_vars(Tick)

\* ------------------------------------------------------------ properties
Commands == {"AddSshKey", "StopTask", "Stop", "StopIfFree"}

Holds(worker) == worker.kind \in {"Running", "Done"}

\* C1: after a successful stop(task_id) on a Busy state, every slot that held
\* a Running worker of that task holds a Done worker, and every other slot
\* that held a worker (Running for another task, or Done) holds that same
\* worker.
C1_StopFrame ==
    (last.op = "StopTask" /\ last.pre.variant = "Busy" /\ last.res = "ok") =>
        /\ sched.variant = "Busy"
        /\ Len(sched.workers) = Len(last.pre.workers)
        /\ \A i \in DOMAIN last.pre.workers :
              LET before == last.pre.workers[i]
              IN IF before.kind = "Running" /\ before.work.task_id = last.task_id
                 THEN sched.workers[i].kind = "Done"
                 ELSE Holds(before) => sched.workers[i] = before

\* C2: while Busy, the worker collection has the length and the order of the
\* originating work set's work units, and no slot is empty.
C2_SlotsPreserved ==
    sched.variant = "Busy" =>
        /\ Len(sched.workers) = Len(origin)
        /\ \A i \in DOMAIN sched.workers :
              /\ Holds(sched.workers[i])
              /\ sched.workers[i].work = origin[i]

\* C3: the end-to-end scenario. run on Ready [task 1, task 2] gives two
\* Running workers in that order; StopTask{1} on it gives [Done 1, Running 2];
\* an update of that state either keeps it Busy with both workers or, when
\* worker 2 is done, gives Done(WorkersDone).
Tasks12 == <<WorkUnit(1), WorkUnit(2)>>
Fresh12 == <<Worker_new(WorkUnit(1)), Worker_new(WorkUnit(2))>>
Stopped1 == <<kill(Worker_new(WorkUnit(1))), Worker_new(WorkUnit(2))>>

C3_Scenario ==
    /\ (last.op = "run" /\ last.res = "ok"
        /\ last.pre = Ready([work_units |-> Tasks12, reboot |-> FALSE]))
          => sched = Busy(Fresh12)
    /\ (last.op = "StopTask" /\ last.task_id = 1 /\ last.res = "ok"
        /\ last.pre = Busy(Fresh12))
          => sched = Busy(Stopped1)
    /\ (last.op = "update" /\ last.pre.variant = "Busy" /\ origin = Tasks12
        /\ last.pre.workers[1] = Stopped1[1])
          => /\ last.res # "panic"
             /\ sched.variant = "Done" => sched = Done(WorkersDone)

\* C4: StopTask returns the scheduler it was given unless the scheduler is
\* Busy and some worker has the task id.
C4_StopTaskFrame ==
    (last.op = "StopTask" /\ last.res = "ok"
     /\ ~(last.pre.variant = "Busy"
          /\ \E i \in DOMAIN last.pre.workers :
                /\ Holds(last.pre.workers[i])
                /\ last.pre.workers[i].work.task_id = last.task_id))
        => sched = last.pre

\* C5: Stop returns Done(Stopped) from every variant, whatever managed is,
\* and neither advances nor cancels a worker.
C5_StopAlwaysStopped ==
    last.op = "Stop" =>
        /\ last.res = "ok"
        /\ sched = Done(Stopped)
        /\ last.killed = {}
        /\ last.polled = 0
        /\ ~last.installed

C5_Witness ==
    /\ last.op = "Stop"
    /\ last.pre.variant = "Busy"
    /\ \E i \in DOMAIN last.pre.workers : last.pre.workers[i].kind = "Running"
    /\ sched = Done(Stopped)

\* C6 (as stated): once the scheduler is Done with cause c, every later Done
\* scheduler has cause c.
C6_CauseImmutable ==
    [][(sched.variant = "Done" /\ sched'.variant = "Done")
          => sched'.cause = sched.cause]_vars

\* C6 (amended): once the scheduler is Done with cause c, the cause stays c
\* under every operation but the Stop command, which sets it to Stopped.
C6_CauseChangedOnlyByStop ==
    [][(sched.variant = "Done" /\ sched'.variant = "Done")
          => \/ sched'.cause = sched.cause
             \/ last'.op = "Stop" /\ sched'.cause = Stopped]_vars

C6_Witness ==
    /\ sched.variant = "Done"
    /\ sched.cause.kind = "SetupError"
    /\ last.op = "StopTask"
    /\ last.pre = sched

\* C7: Done is terminal: an operation on a Done scheduler returns a Done
\* scheduler, or an error and no scheduler at all.
C7_DoneTerminal ==
    [][sched.variant = "Done"
          => \/ sched'.variant = "Done"
             \/ sched' = NoSched /\ last'.res = "err"]_vars

C7_Witness ==
    /\ sched.variant = "Done"
    /\ last.pre.variant = "Done"
    /\ last.op = "Stop"
    /\ last.pre.cause = WorkersDone

C10_StopIfFree ==
    last.op = "StopIfFree" =>
        /\ last.res = "ok"
        /\ last.pre.variant = "Free" => sched = Done(Stopped)
        /\ last.pre.variant # "Free" => sched = last.pre
        /\ last.killed = {}

C10_Witness ==
    /\ last.op = "StopIfFree"
    /\ last.pre.variant = "Busy"
    /\ Len(last.pre.workers) > 0
    /\ sched = last.pre

\* C11: if any cancellation in stop fails, the call returns the error and no
\* scheduler, whatever other slots had finished cancelling; stop returns an
\* error in no other case.
C11_StopAllOrNothing ==
    (last.op = "StopTask" /\ last.pre.variant = "Busy") =>
        /\ last.failed # {} => (last.res = "err" /\ sched = NoSched /\ pc = "failed")
        /\ last.failed = {} => (last.res = "ok" /\ sched.variant = "Busy")

C11_Witness ==
    /\ last.op = "StopTask"
    /\ last.pre.variant = "Busy"
    /\ last.failed # {}
    /\ last.killed # {}
    /\ last.res = "err"
    /\ sched = NoSched

\* C12: an update whose worker updates all succeed advances every slot once,
\* then returns Done(WorkersDone) iff every advanced worker is done, and
\* otherwise Busy holding the advanced workers in the same slots.
C12_UpdateAdvancesAll ==
    (last.op = "update" /\ last.res # "err") =>
        /\ last.res = "ok"
        /\ last.polled = Len(last.pre.workers)
        /\ sched.variant \in {"Busy", "Done"}
        /\ sched.variant = "Busy" =>
              /\ Len(sched.workers) = Len(last.pre.workers)
              /\ \A i \in DOMAIN sched.workers : \E done_now \in BOOLEAN :
                    sched.workers[i] = Worker_update(last.pre.workers[i], done_now)
              /\ ~all_workers_done(sched.workers)
        /\ sched.variant = "Done" =>
              /\ sched = Done(WorkersDone)
              /\ \A i \in DOMAIN last.pre.workers : \E done_now \in BOOLEAN :
                    is_done(Worker_update(last.pre.workers[i], done_now))

\* C18: every slot of a Busy state holds a worker, and no operation panics
\* on the unwrap of a slot.
C18_SlotsAlwaysSome ==
    /\ last.res # "panic"
    /\ sched.variant = "Busy" =>
          \A i \in DOMAIN sched.workers : sched.workers[i] # NoWorker

\* C20: run on a work set without work units gives Busy with no slot, and an
\* update of a Busy state with no slot returns Done(WorkersDone) without
\* advancing a worker.
C20_EmptyWorkSet ==
    /\ (last.op = "run" /\ last.res = "ok" /\ last.pre.work_set.work_units = << >>)
          => sched = Busy(<< >>)
    /\ (last.op = "update" /\ last.pre = Busy(<< >>))
          => (last.res = "ok" /\ sched = Done(WorkersDone) /\ last.polled = 0)

C20_Witness ==
    /\ last.op = "update"
    /\ last.pre = Busy(<< >>)
    /\ origin = << >>
    /\ sched = Done(WorkersDone)

C14_SetupProceeds ==
    (last.op = "finish"
     /\ (last.setup.kind = "NoScript"
         \/ (last.setup.kind = "Script" /\ last.setup.success))) =>
        /\ last.res = "ok"
        /\ sched = IF last.pre.work_set.reboot
                   THEN PendingReboot(last.pre.work_set)
                   ELSE Ready(last.pre.work_set)

C14_Witness ==
    /\ last.op = "finish"
    /\ last.setup.kind = "Script"
    /\ last.setup.success
    /\ last.pre.work_set.reboot
    /\ Len(last.pre.work_set.work_units) = 2
    /\ sched = PendingReboot(last.pre.work_set)

\* C17: run returns Busy with one Running worker per work unit, in the order
\* of the work units; if a directory computation fails it returns the error
\* and no scheduler.
C17_RunAllOrNothing ==
    last.op = "run" =>
        IF last.fault # 0
        THEN last.res = "err" /\ sched = NoSched /\ pc = "failed"
        ELSE /\ last.res = "ok"
             /\ sched.variant = "Busy"
             /\ Len(sched.workers) = Len(last.pre.work_set.work_units)
             /\ \A i \in DOMAIN sched.workers :
                   /\ sched.workers[i].kind = "Running"
                   /\ sched.workers[i] = Worker_new(last.pre.work_set.work_units[i])

C17_Witness ==
    /\ last.op = "run"
    /\ Len(last.pre.work_set.work_units) = 2
    /\ last.fault = 2
    /\ last.res = "err"
    /\ sched = NoSched

\* C15: the reboot round trip. finish on a work set with the reboot flag and
\* a successful or absent script gives PendingReboot; reboot_context wraps
\* that work set; new on that context gives Ready holding it; the setup
\* runner is invoked once only.
C15_RebootRoundTrip ==
    /\ (last.op = "finish" /\ last.pre.work_set.reboot
        /\ last.setup.kind \in {"NoScript", "Script"}
        /\ (last.setup.kind = "Script" => last.setup.success))
          => sched = PendingReboot(last.pre.work_set)
    /\ last.op = "reboot_context" =>
          /\ last.pre.variant = "PendingReboot"
          /\ reboot_ctx = RebootContext(last.pre.work_set)
          /\ sched = NoSched
    /\ (last.op = "new" /\ reboot_ctx.some) =>
          /\ sched = Ready(reboot_ctx.work_set)
          /\ reboot_ctx.work_set.reboot
    /\ reboot_ctx.some => setup_runs = 1
    /\ setup_runs <= 1

C15_Witness ==
    /\ last.op = "new"
    /\ reboot_ctx.some
    /\ Len(reboot_ctx.work_set.work_units) = 2
    /\ sched = Ready(reboot_ctx.work_set)
    /\ setup_runs = 1

\* C16: new without a reboot context gives Free; new with a reboot context
\* gives Ready holding the work set of the context.
C16_New ==
    last.op = "new" =>
        /\ last.res = "ok"
        /\ sched = IF reboot_ctx.some THEN Ready(reboot_ctx.work_set) ELSE Free
        /\ sched.variant \notin {"SettingUp", "PendingReboot", "Busy", "Done"}

C16_Witness ==
    /\ last.op = "new"
    /\ reboot_ctx = NoCtx
    /\ sched = Free
    /\ setup_runs = 0

\* C19: when the driver keeps ticking, no operation returns an error and the
\* work set needs no reboot, the scheduler eventually is Done.
C19_EventuallyDone ==
    <>(\/ sched.variant = "Done"
       \/ last.res = "err"
       \/ sched.variant = "PendingReboot")

====
